---- MODULE Spec2Model ----
(***************************************************************************)
(* Model of adafruit_esp32spi/digitalio.py: the Pin class, which validates *)
(* a GPIO number and forwards set_pin_mode / set_digital_write to the      *)
(* ESP32 driver, and the DigitalInOut class layered on top of it.          *)
(*                                                                         *)
(* Every method is an operator from the receiving object (and the call's   *)
(* arguments) to a result record                                           *)
(*     [self |-> the object after the call,                                *)
(*      cmds |-> the driver commands the call issued, in order,            *)
(*      err  |-> "none" or the exception that left the call,               *)
(*      ret  |-> the value returned].                                      *)
(* An exception leaves every assignment made before it in place, as in     *)
(* Python.  One action per public call applies the operator to the state.  *)
(***************************************************************************)
EXTENDS Integers, Sequences, FiniteSets

VARIABLES
    dio,    \* the DigitalInOut object (its attributes, and the Pin it made)
    pin,    \* a Pin object constructed directly by the caller
    made,   \* which of the two objects exist
    esp,    \* the driver: last mode / level it was told, per GPIO number
    sent,   \* the driver commands issued by the most recent call
    op,     \* the most recent call and its arguments
    err,    \* the exception of the most recent call, or "none"
    ret     \* the value the most recent call returned

vars == <<dio, pin, made, esp, sent, op, err, ret>>

-----------------------------------------------------------------------------
(* Constants of class Pin *)

\* (IN is a keyword of TLA+, so the four carry the class name)
Pin_IN == 0
Pin_OUT == 1
Pin_LOW == 0
Pin_HIGH == 1

\* Python's None where an integer argument is expected
None == -1

ESP32_GPIO_PINS ==
    {0, 1, 2, 4, 5, 12, 13, 14, 15, 16, 17, 18, 19, 21, 22, 23, 25, 26, 27, 32, 33}

\* Class-level defaults of Pin: id = None, _mode = IN, _value = LOW
PinDefaults == [id |-> None, _mode |-> Pin_IN, _value |-> Pin_LOW]

\* Class-level default of DigitalInOut: _pin = None; the name-mangled
\* attributes __direction and __drive_mode, and _drive_mode, do not exist
\* until first assigned ("UNSET").  Field pin is the Pin object that _pin
\* refers to while _pin = "Pin".
DigitalInOutDefaults ==
    [_pin |-> "None", pin |-> PinDefaults,
     __direction |-> "UNSET", __drive_mode |-> "UNSET", _drive_mode |-> "UNSET"]

-----------------------------------------------------------------------------
(* Inputs *)

\* GPIO numbers handed to DigitalInOut(esp, pin): two valid, two invalid
DigitalInOutArgs == {5, 33, 3, 99}
\* GPIO numbers handed to Pin(esp_pin, esp): one valid, one invalid
PinArgs == {13, 34}
\* mode / val arguments of Pin.init and Pin.value
PinModeArgs == {None, Pin_IN, Pin_OUT, 2}
PinValueArgs == {None, Pin_LOW, Pin_HIGH, 2}
\* values assigned to the direction and drive_mode properties
DirectionArgs == {"INPUT", "OUTPUT", "BAD"}
DriveModeArgs == {"PUSH_PULL", "OPEN_DRAIN", "BAD"}

GpioNumbers == DigitalInOutArgs \cup PinArgs

-----------------------------------------------------------------------------
(* The driver *)

set_pin_mode(id, code) == [cmd |-> "set_pin_mode", pin |-> id, arg |-> code]
set_digital_write(id, code) == [cmd |-> "set_digital_write", pin |-> id, arg |-> code]

\* What the driver holds after one command
EspApply(e, c) ==
    IF c.cmd = "set_pin_mode"
    THEN [e EXCEPT ![c.pin].mode = c.arg]
    ELSE [e EXCEPT ![c.pin].level = c.arg]

RECURSIVE EspRun(_, _)
EspRun(e, cmds) ==
    IF cmds = <<>> THEN e ELSE EspRun(EspApply(e, Head(cmds)), Tail(cmds))

-----------------------------------------------------------------------------
(* Call results *)

Ok(self) == [self |-> self, cmds |-> <<>>, err |-> "none", ret |-> "None"]
Return(self, v) == [self |-> self, cmds |-> <<>>, err |-> "none", ret |-> v]
Raise(self, e) == [self |-> self, cmds |-> <<>>, err |-> e, ret |-> "None"]
Call(self, c) == [self |-> self, cmds |-> <<c>>, err |-> "none", ret |-> "None"]

\* Statement sequencing: n, the outcome of the next statement on the object
\* r.self, counts unless r raised
Then(r, n) ==
    IF r.err # "none" THEN r
    ELSE [n EXCEPT !.cmds = r.cmds \o n.cmds]

-----------------------------------------------------------------------------
(* class Pin *)

\* Variant of Pin_new: the membership test is dropped
Pin_new_unchecked(esp_pin) ==
    Ok([PinDefaults EXCEPT !.id = esp_pin])

\* Pin.__init__(esp_pin, esp): the object is created only for a valid number
Pin_new(esp_pin) ==
    IF esp_pin \in ESP32_GPIO_PINS
    THEN Ok([PinDefaults EXCEPT !.id = esp_pin])
    ELSE Raise(PinDefaults, "AttributeError: not a valid ESP32 GPIO Pin")

\* Pin.init(mode)
Pin_init(self, mode) ==
    IF mode # None
    THEN IF mode = Pin_IN
         THEN Call([self EXCEPT !._mode = Pin_IN], set_pin_mode(self.id, 0))
         ELSE IF mode = Pin_OUT
         THEN Call([self EXCEPT !._mode = Pin_OUT], set_pin_mode(self.id, 1))
         ELSE Raise(self, "RuntimeError: Invalid mode defined")
    ELSE Ok(self)

\* Variant of Pin_value: a call without argument returns the cached level
Pin_value_reads_cache(self, val) ==
    IF val # None
    THEN IF val = Pin_LOW
         THEN Call([self EXCEPT !._value = val], set_digital_write(self.id, 0))
         ELSE IF val = Pin_HIGH
         THEN Call([self EXCEPT !._value = val], set_digital_write(self.id, 1))
         ELSE Raise(self, "RuntimeError: Invalid value for pin")
    ELSE Return(self, IF self._value = Pin_HIGH THEN "1" ELSE "0")

\* Pin.value(val)
Pin_value(self, val) ==
    IF val # None
    THEN IF val = Pin_LOW
         THEN Call([self EXCEPT !._value = val], set_digital_write(self.id, 0))
         ELSE IF val = Pin_HIGH
         THEN Call([self EXCEPT !._value = val], set_digital_write(self.id, 1))
         ELSE Raise(self, "RuntimeError: Invalid value for pin")
    ELSE Raise(self, "NotImplementedError: digitalRead")

-----------------------------------------------------------------------------
(* class DigitalInOut *)

\* self._pin.<method>(...), r being the outcome of the method on the Pin
\* self.pin: an attribute of None once _pin has been released
OnPin(self, r) ==
    IF self._pin = "None"
    THEN Raise(self, "AttributeError: NoneType has no attribute")
    ELSE [r EXCEPT !.self = [self EXCEPT !.pin = r.self]]

\* DigitalInOut.deinit()
deinit(self) == Ok([self EXCEPT !._pin = "None"])

\* DigitalInOut.switch_to_input(pull)
switch_to_input(self) == Raise(self, "NotImplementedError: digital reads")

\* direction (getter); reading an attribute never assigned raises
direction_get(self) ==
    IF self.__direction = "UNSET"
    THEN Raise(self, "AttributeError: no attribute __direction")
    ELSE Return(self, self.__direction)

\* value (getter): self._pin.value() is 1
value_get(self) ==
    LET r == OnPin(self, Pin_value(self.pin, None))
    IN  IF r.err # "none" THEN r
        ELSE [r EXCEPT !.ret = IF r.ret = "1" THEN "True" ELSE "False"]

\* Variant of value_set: the level is written through a re-initialised pin
value_set_reinit(self, val) ==
    LET d == direction_get(self)
    IN  IF d.err # "none" THEN d
        ELSE IF d.ret = "OUTPUT"
        THEN LET a == OnPin(self, Pin_init(self.pin, Pin_OUT))
             IN  Then(a, OnPin(a.self, Pin_value(a.self.pin, IF val THEN 1 ELSE 0)))
        ELSE Raise(self, "AttributeError: Not an output")

\* value (setter)
value_set(self, val) ==
    LET d == direction_get(self)
    IN  IF d.err # "none" THEN d
        ELSE IF d.ret = "OUTPUT"
        THEN OnPin(self, Pin_value(self.pin, IF val THEN 1 ELSE 0))
        ELSE Raise(self, "AttributeError: Not an output")

\* drive_mode (getter)
drive_mode_get(self) ==
    LET d == direction_get(self)
    IN  IF d.err # "none" THEN d
        ELSE IF d.ret = "OUTPUT"
        THEN IF self.__drive_mode = "UNSET"
             THEN Raise(self, "AttributeError: no attribute __drive_mode")
             ELSE Return(self, self.__drive_mode)
        ELSE Raise(self, "AttributeError: Not an output")

\* drive_mode (setter).  Class Pin defines no OPEN_DRAIN, so the argument
\* expression Pin.OPEN_DRAIN raises (after self._pin.init has been looked up)
\* and Pin.init is never entered; a mode that is neither sentinel is stored
\* and nothing else happens.
drive_mode_set(self, mode) ==
    LET s == [self EXCEPT !.__drive_mode = mode]
    IN  IF mode = "OPEN_DRAIN"
        THEN OnPin(s, Raise(s.pin, "AttributeError: Pin has no attribute OPEN_DRAIN"))
        ELSE IF mode = "PUSH_PULL"
        THEN OnPin(s, Pin_init(s.pin, Pin_OUT))
        ELSE Ok(s)

\* Variant of direction_set: switching to OUTPUT does not reset the level
direction_set_keeps_value(self, dir) ==
    LET s == [self EXCEPT !.__direction = dir]
    IN  IF dir = "OUTPUT"
        THEN LET a == OnPin(s, Pin_init(s.pin, Pin_OUT))
             IN  Then(a, drive_mode_set(a.self, "PUSH_PULL"))
        ELSE IF dir = "INPUT"
        THEN OnPin(s, Pin_init(s.pin, Pin_IN))
        ELSE Raise(s, "AttributeError: Not a Direction")

\* direction (setter)
direction_set(self, dir) ==
    LET s == [self EXCEPT !.__direction = dir]
    IN  IF dir = "OUTPUT"
        THEN LET a == OnPin(s, Pin_init(s.pin, Pin_OUT))
                 b == Then(a, value_set(a.self, FALSE))
             IN  Then(b, drive_mode_set(b.self, "PUSH_PULL"))
        ELSE IF dir = "INPUT"
        THEN OnPin(s, Pin_init(s.pin, Pin_IN))
        ELSE Raise(s, "AttributeError: Not a Direction")

\* DigitalInOut.switch_to_output(value, drive_mode); the last statement
\* assigns the plain attribute _drive_mode, not the drive_mode property
switch_to_output(self, value, drive_mode) ==
    LET a == direction_set(self, "OUTPUT")
        b == Then(a, value_set(a.self, value))
    IN  Then(b, Ok([b.self EXCEPT !._drive_mode = drive_mode]))

\* DigitalInOut.__init__(esp, pin)
DigitalInOut_new(a) ==
    LET p == Pin_new(a)
    IN  IF p.err # "none" THEN Raise(DigitalInOutDefaults, p.err)
        ELSE direction_set([DigitalInOutDefaults EXCEPT !._pin = "Pin", !.pin = p.self],
                           "INPUT")

-----------------------------------------------------------------------------
(* The calls a program can make *)

NoArgs == [n |-> None, b |-> FALSE, s |-> ""]

Init ==
    /\ dio = DigitalInOutDefaults
    /\ pin = PinDefaults
    /\ made = [dio |-> FALSE, pin |-> FALSE]
    /\ esp = [g \in GpioNumbers |-> [mode |-> None, level |-> None]]
    /\ sent = <<>>
    /\ op = [name |-> "start", args |-> NoArgs]
    /\ err = "none"
    /\ ret = "None"

\* The outcome r of call name(args) on the DigitalInOut object
OnDigitalInOut(name, args, r) ==
    /\ made.dio
    /\ dio' = r.self
    /\ sent' = r.cmds
    /\ esp' = EspRun(esp, r.cmds)
    /\ op' = [name |-> name, args |-> args]
    /\ err' = r.err
    /\ ret' = r.ret
    /\ UNCHANGED <<pin, made>>

\* The outcome r of call name(args) on the caller's own Pin object
OnOwnPin(name, args, r) ==
    /\ made.pin
    /\ pin' = r.self
    /\ sent' = r.cmds
    /\ esp' = EspRun(esp, r.cmds)
    /\ op' = [name |-> name, args |-> args]
    /\ err' = r.err
    /\ ret' = r.ret
    /\ UNCHANGED <<dio, made>>

\* p = Pin(a, esp): a failed constructor leaves no object behind
NewPin ==
    \E a \in PinArgs :
        LET r == Pin_new(a)
        IN  /\ ~made.pin
            /\ pin' = r.self
            /\ made' = [made EXCEPT !.pin = (r.err = "none")]
            /\ sent' = r.cmds
            /\ esp' = EspRun(esp, r.cmds)
            /\ op' = [name |-> "Pin", args |-> [NoArgs EXCEPT !.n = a]]
            /\ err' = r.err
            /\ ret' = r.ret
            /\ UNCHANGED dio

PinInit ==
    \E m \in PinModeArgs :
        OnOwnPin("Pin.init", [NoArgs EXCEPT !.n = m], Pin_init(pin, m))

PinValue ==
    \E v \in PinValueArgs :
        OnOwnPin("Pin.value", [NoArgs EXCEPT !.n = v], Pin_value(pin, v))

\* d = DigitalInOut(esp, a)
NewDigitalInOut ==
    \E a \in DigitalInOutArgs :
        LET r == DigitalInOut_new(a)
        IN  /\ ~made.dio
            /\ dio' = IF r.err = "none" THEN r.self ELSE DigitalInOutDefaults
            /\ made' = [made EXCEPT !.dio = (r.err = "none")]
            /\ sent' = r.cmds
            /\ esp' = EspRun(esp, r.cmds)
            /\ op' = [name |-> "DigitalInOut", args |-> [NoArgs EXCEPT !.n = a]]
            /\ err' = r.err
            /\ ret' = r.ret
            /\ UNCHANGED pin

Deinit == OnDigitalInOut("deinit", NoArgs, deinit(dio))

SwitchToOutput ==
    \E v \in BOOLEAN, m \in DriveModeArgs \ {"BAD"} :
        OnDigitalInOut("switch_to_output", [NoArgs EXCEPT !.b = v, !.s = m],
                       switch_to_output(dio, v, m))

SwitchToInput == OnDigitalInOut("switch_to_input", NoArgs, switch_to_input(dio))

GetDirection == OnDigitalInOut("direction", NoArgs, direction_get(dio))

SetDirection ==
    \E d \in DirectionArgs :
        OnDigitalInOut("direction=", [NoArgs EXCEPT !.s = d], direction_set(dio, d))

GetValue == OnDigitalInOut("value", NoArgs, value_get(dio))

SetValue ==
    \E v \in BOOLEAN :
        OnDigitalInOut("value=", [NoArgs EXCEPT !.b = v], value_set(dio, v))

GetDriveMode == OnDigitalInOut("drive_mode", NoArgs, drive_mode_get(dio))

SetDriveMode ==
    \E m \in DriveModeArgs :
        OnDigitalInOut("drive_mode=", [NoArgs EXCEPT !.s = m], drive_mode_set(dio, m))

Next ==
    \/ NewPin
    \/ PinInit
    \/ PinValue
    \/ NewDigitalInOut
    \/ Deinit
    \/ SetDirection
    \/ SetDriveMode
    \/ SetValue
    \/ SwitchToOutput
    \/ SwitchToInput
    \/ GetDirection
    \/ GetDriveMode
    \/ GetValue

Spec == Init /\ [][Next]_vars

-----------------------------------------------------------------------------
(* Properties *)

\* The DigitalInOut object exists and still holds its Pin / has released it
Live == made.dio /\ dio._pin = "Pin"
Released == made.dio /\ dio._pin = "None"

\* The exceptions of the source, by what they report
NotAnOutput == "AttributeError: Not an output"
Unsupported == {"NotImplementedError: digitalRead", "NotImplementedError: digital reads"}
InvalidPin == "AttributeError: not a valid ESP32 GPIO Pin"

\* The calls on a DigitalInOut other than its constructor and deinit
DigitalInOutCalls ==
    {"direction", "direction=", "value", "value=", "drive_mode", "drive_mode=",
     "switch_to_output", "switch_to_input"}

\* The call o passes a member of the enumeration its parameter expects
InEnum(o) ==
    /\ o.name = "drive_mode=" => o.args.s \in {"PUSH_PULL", "OPEN_DRAIN"}
    /\ o.name = "direction=" => o.args.s \in {"INPUT", "OUTPUT"}

\* What the drive_mode property reads as
DriveModeRead == drive_mode_get(dio).ret

\* C1: once deinit() has been called, every later call on the object
\* (direction, value, drive_mode get/set, switch_to_output, switch_to_input)
\* raises and sends the driver nothing, while deinit() itself always
\* succeeds and leaves the object released.  The source has no dedicated
\* exception for use after deinit, so any exception counts as the failure.
C1_AfterDeinit ==
    [][ /\ (Released /\ op'.name \in DigitalInOutCalls /\ InEnum(op'))
            => (err' # "none" /\ sent' = <<>>)
        /\ (made.dio /\ op'.name = "deinit")
            => (err' = "none" /\ sent' = <<>> /\ dio'._pin = "None") ]_vars

\* C2: switch_to_output(value, drive_mode) on an unreleased object completes
\* with direction OUTPUT and drive_mode reading as the given mode, and the
\* driver gets exactly: set-pin-mode OUTPUT, digital-write of the given
\* value, set-pin-mode for the drive mode (OUTPUT code for PUSH_PULL, some
\* other code for OPEN_DRAIN).
C2_SwitchToOutput ==
    (Live /\ op.name = "switch_to_output") =>
        /\ err = "none"
        /\ dio.__direction = "OUTPUT"
        /\ DriveModeRead = op.args.s
        /\ Len(sent) = 3
        /\ sent[1] = set_pin_mode(dio.pin.id, 1)
        /\ sent[2] = set_digital_write(dio.pin.id, IF op.args.b THEN 1 ELSE 0)
        /\ sent[3].cmd = "set_pin_mode" /\ sent[3].pin = dio.pin.id
        /\ (op.args.s = "PUSH_PULL" => sent[3].arg = 1)
        /\ (op.args.s = "OPEN_DRAIN" => sent[3].arg # 1)

\* C3: a call on an existing Pin or DigitalInOut that raises leaves the
\* stored direction, the stored drive mode, Pin.mode and Pin.value as they
\* were, and has sent the driver nothing.
C3_FailureLeavesState ==
    [][ (err' # "none" /\ op'.name \notin {"Pin", "DigitalInOut"}) =>
            /\ dio'.__direction = dio.__direction
            /\ dio'.__drive_mode = dio.__drive_mode
            /\ dio'.pin = dio.pin
            /\ pin' = pin
            /\ sent' = <<>> ]_vars

\* C4: assigning PUSH_PULL or OPEN_DRAIN to drive_mode of an unreleased
\* object in direction OUTPUT succeeds, stores the mode and sends exactly one
\* set-pin-mode command: code 1 for PUSH_PULL, another code for OPEN_DRAIN.
C4_DriveModeSet ==
    (Live /\ dio.__direction = "OUTPUT" /\ op.name = "drive_mode="
          /\ op.args.s \in {"PUSH_PULL", "OPEN_DRAIN"}) =>
        /\ err = "none"
        /\ dio.__drive_mode = op.args.s
        /\ Len(sent) = 1
        /\ sent[1].cmd = "set_pin_mode" /\ sent[1].pin = dio.pin.id
        /\ (op.args.s = "PUSH_PULL" => sent[1].arg = 1)
        /\ (op.args.s = "OPEN_DRAIN" => sent[1].arg # 1)

\* C5: after direction := OUTPUT on an unreleased object, whatever the
\* direction, drive mode and level were before, the direction is OUTPUT,
\* drive_mode reads PUSH_PULL, Pin.value is LOW, and the call has sent the
\* driver set-pin-mode(id, 1) and digital-write(id, 0).
C5_DirectionOutput ==
    [][ (Live /\ op'.name = "direction=" /\ op'.args.s = "OUTPUT") =>
            /\ err' = "none"
            /\ dio'.__direction = "OUTPUT"
            /\ drive_mode_get(dio').ret = "PUSH_PULL"
            /\ dio'.pin._value = Pin_LOW
            /\ dio'.pin.id = dio.pin.id
            /\ \E i \in 1..Len(sent') : sent'[i] = set_pin_mode(dio.pin.id, 1)
            /\ \E i \in 1..Len(sent') : sent'[i] = set_digital_write(dio.pin.id, 0) ]_vars

\* direction := OUTPUT accepted on an object that switch_to_output(..,
\* OPEN_DRAIN) had configured before
C5_Witness ==
    /\ Live /\ op.name = "direction=" /\ op.args.s = "OUTPUT" /\ err = "none"
    /\ dio.__drive_mode = "PUSH_PULL" /\ dio.pin._value = Pin_LOW
    /\ dio._drive_mode = "OPEN_DRAIN"

\* C6: direction := INPUT, and the construction of a DigitalInOut, send the
\* driver set-pin-mode(id, 0); and while the direction is INPUT every
\* value get, value set, drive_mode get and drive_mode set raises the
\* not-an-output error.
C6_DirectionInput ==
    [][ /\ (Live /\ op'.name = "direction=" /\ op'.args.s = "INPUT")
            => (\E i \in 1..Len(sent') : sent'[i] = set_pin_mode(dio.pin.id, 0))
        /\ (op'.name = "DigitalInOut" /\ err' = "none")
            => (\E i \in 1..Len(sent') : sent'[i] = set_pin_mode(op'.args.n, 0))
        /\ (Live /\ dio.__direction = "INPUT"
                 /\ op'.name \in {"value", "value=", "drive_mode", "drive_mode="}
                 /\ InEnum(op'))
            => err' = NotAnOutput ]_vars

\* C7: Pin(n) and DigitalInOut(esp, n) raise the invalid-pin error and send
\* the driver nothing when n is outside ESP32_GPIO_PINS; for n in the set
\* they succeed with Pin.id = n; and no later call changes a Pin's id.
C7_PinIdentifier ==
    [][ /\ op'.name = "Pin" =>
              IF op'.args.n \in ESP32_GPIO_PINS
              THEN err' = "none" /\ made'.pin /\ pin'.id = op'.args.n
              ELSE err' = InvalidPin /\ ~made'.pin /\ sent' = <<>> /\ esp' = esp
        /\ op'.name = "DigitalInOut" =>
              IF op'.args.n \in ESP32_GPIO_PINS
              THEN err' = "none" /\ made'.dio /\ dio'.pin.id = op'.args.n
              ELSE err' = InvalidPin /\ ~made'.dio /\ sent' = <<>> /\ esp' = esp
        /\ made.pin => (made'.pin /\ pin'.id = pin.id)
        /\ made.dio => (made'.dio /\ dio'.pin.id = dio.pin.id) ]_vars

\* A DigitalInOut refused for its identifier while the caller's Pin 13,
\* already written to, keeps its id
C7_Witness ==
    /\ op.name = "DigitalInOut" /\ op.args.n \notin ESP32_GPIO_PINS
    /\ err = InvalidPin /\ ~made.dio
    /\ made.pin /\ pin.id = 13 /\ pin._value = Pin_HIGH

\* C8: value := v on an unreleased object whose direction is OUTPUT sends
\* exactly one command, digital-write(id, 1) for true and (id, 0) for false,
\* and leaves direction and drive mode as they were.
C8_ValueSet ==
    [][ (Live /\ dio.__direction = "OUTPUT" /\ op'.name = "value=") =>
            /\ err' = "none"
            /\ sent' = <<set_digital_write(dio.pin.id, IF op'.args.b THEN 1 ELSE 0)>>
            /\ dio'.__direction = dio.__direction
            /\ dio'.__drive_mode = dio.__drive_mode
            /\ dio'.pin._mode = dio.pin._mode ]_vars

\* value := True accepted in direction OUTPUT
C8_Witness ==
    /\ Live /\ dio.__direction = "OUTPUT" /\ op.name = "value=" /\ op.args.b
    /\ err = "none" /\ dio.pin._value = Pin_HIGH

\* C9: reading value from an unreleased object raises the unsupported-
\* operation error whatever the direction, returns nothing, sends the driver
\* nothing and changes no state.
C9_ValueGet ==
    [][ (Live /\ op'.name = "value") =>
            /\ err' \in Unsupported
            /\ ret' = "None"
            /\ sent' = <<>>
            /\ dio' = dio /\ pin' = pin /\ esp' = esp /\ made' = made ]_vars

\* value read while the direction is OUTPUT and the pin is driven HIGH
C9_Witness ==
    /\ Live /\ dio.__direction = "OUTPUT" /\ dio.pin._value = Pin_HIGH
    /\ op.name = "value" /\ err \in Unsupported

\* C10: on an unreleased object the pin layer agrees with the direction:
\* direction INPUT implies Pin.mode = IN and the driver's last mode for the
\* pin is INPUT (0); direction OUTPUT implies Pin.mode = OUT.
C10_PinAgreesWithDirection ==
    Live =>
        /\ dio.__direction = "INPUT"
            => (dio.pin._mode = Pin_IN /\ esp[dio.pin.id].mode = 0)
        /\ dio.__direction = "OUTPUT" => dio.pin._mode = Pin_OUT

====
